---- MODULE Spec2Model ----
(***************************************************************************)
(* Model of ballista's dataframe.rs: the layered configuration resolver    *)
(* (Configs), the backend-state descriptor (ContextState), the plan        *)
(* builder (DataFrame) and the terminal collect dispatch.                  *)
(*                                                                         *)
(* Conventions.                                                            *)
(*   - A Rust String that is parsed is a sequence of one-character         *)
(*     strings (<<"1","0","2","4">> is "1024"); keys are plain strings.    *)
(*   - Option<T> is a sequence of length at most one: None is <<>>,        *)
(*     Some(x) is <<x>>.                                                   *)
(*   - Vec indices are 0-based as in the source; TLA+ sequences are        *)
(*     1-based, so field i of a schema s is s[i + 1].                      *)
(*   - A call ends in [kind |-> "Ok" | "Err" | "Panic", ...].              *)
(***************************************************************************)
EXTENDS Integers, Sequences, FiniteSets, TLC

VARIABLES ctx_state, builders, futures, last

vars == <<ctx_state, builders, futures, last>>

None == <<>>

Some(x) == <<x>>

(***************************************************************************)
(* str::parse::<usize>() on a 64-bit target.                               *)
(***************************************************************************)
DigitVal ==
    [c \in {"0", "1", "2", "3", "4", "5", "6", "7", "8", "9"} |->
        CASE c = "0" -> 0 [] c = "1" -> 1 [] c = "2" -> 2 [] c = "3" -> 3
          [] c = "4" -> 4 [] c = "5" -> 5 [] c = "6" -> 6 [] c = "7" -> 7
          [] c = "8" -> 8 [] c = "9" -> 9]

IsDigit(c) == c \in DOMAIN DigitVal

\* usize::MAX = 2^64 - 1 = 18446744073709551615, digit by digit.
UsizeMaxDigits == <<1, 8, 4, 4, 6, 7, 4, 4, 0, 7, 3, 7, 0, 9, 5, 5, 1, 6, 1, 5>>

RECURSIVE StripZeros(_)
StripZeros(ds) ==
    IF ds # <<>> /\ Head(ds) = "0" THEN StripZeros(Tail(ds)) ELSE ds

RECURSIVE LexGreater(_, _)
\* ds (characters) > ms (numbers), both of the same length, most significant first
LexGreater(ds, ms) ==
    IF ds = <<>> THEN FALSE
    ELSE IF DigitVal[Head(ds)] # Head(ms) THEN DigitVal[Head(ds)] > Head(ms)
    ELSE LexGreater(Tail(ds), Tail(ms))

\* the checked_mul / checked_add of the digit loop fails: the number exceeds usize::MAX
PosOverflow(ds) ==
    LET sig == StripZeros(ds) IN
    \/ Len(sig) > Len(UsizeMaxDigits)
    \/ Len(sig) = Len(UsizeMaxDigits) /\ LexGreater(sig, UsizeMaxDigits)

RECURSIVE DigitsValue(_, _)
\* the value of a digit string that passed the overflow test (the strings the
\* specifications draw stay far below usize::MAX)
DigitsValue(ds, acc) ==
    IF ds = <<>> THEN acc
    ELSE DigitsValue(Tail(ds), acc * 10 + DigitVal[Head(ds)])

RECURSIVE ScanDigits(_, _)
\* the digit loop, left to right from position i: it stops at the first position
\* whose character is no digit (InvalidDigit) or at which the number read so far
\* exceeds usize::MAX (PosOverflow); at one position the digit test comes first
ScanDigits(digits, i) ==
    IF i > Len(digits) THEN ""
    ELSE IF ~IsDigit(digits[i]) THEN "InvalidDigit"
    ELSE IF PosOverflow(SubSeq(digits, 1, i)) THEN "PosOverflow"
    ELSE ScanDigits(digits, i + 1)

\* Result<usize, ParseIntError>: [ok, value, error]
ParseUsize(s) ==
    LET fail(e) == [ok |-> FALSE, value |-> 0, error |-> e]
        \* an unsigned type strips a leading "+" only; "-" stays and is no digit
        digits == IF s # <<>> /\ Head(s) = "+" THEN Tail(s) ELSE s
        stop == ScanDigits(digits, 1)
    IN  IF s = <<>> THEN fail("Empty")
        ELSE IF s \in {<<"+">>, <<"-">>} THEN fail("InvalidDigit")
        ELSE IF stop # "" THEN fail(stop)
        ELSE [ok |-> TRUE, value |-> DigitsValue(digits, 0), error |-> ""]

(***************************************************************************)
(* Configuration resolver.                                                 *)
(***************************************************************************)
CSV_BATCH_SIZE == "ballista.csv.batchSize"

SPARK_HOST == "spark.ballista.host"

SPARK_PORT == "spark.ballista.port"

ConfigSetting_new(key, description, default_value) ==
    [key |-> key, description |-> description, default_value |-> default_value]

ConfigSetting_default_value(setting) == setting.default_value

Configs_new(settings) ==
    LET csv_batch_size ==
            ConfigSetting_new(CSV_BATCH_SIZE, "Number of rows to read per batch",
                              Some(<<"1", "0", "2", "4">>))
        configs == <<csv_batch_size>>
    IN  [configs |-> [k \in {configs[i].key : i \in DOMAIN configs} |->
                         LET i == CHOOSE j \in DOMAIN configs :
                                    /\ configs[j].key = k
                                    /\ \A l \in DOMAIN configs :
                                         configs[l].key = k => l <= j
                         IN  configs[i]],
         settings |-> settings]

Configs_get_setting_catalog_first(self, name) ==
    IF name \in DOMAIN self.configs
    THEN ConfigSetting_default_value(self.configs[name])
    ELSE IF name \in DOMAIN self.settings THEN Some(self.settings[name])
    ELSE None

Configs_get_setting(self, name) ==
    IF name \in DOMAIN self.settings THEN Some(self.settings[name])
    ELSE IF name \in DOMAIN self.configs
         THEN ConfigSetting_default_value(self.configs[name])
         ELSE None

Configs_csv_batch_size(self) == Configs_get_setting(self, CSV_BATCH_SIZE)

\* HashMap<&str, &str> -> HashMap<String, String>
parse_settings(settings) == [k \in DOMAIN settings |-> settings[k]]

(***************************************************************************)
(* Results of fallible calls.                                              *)
(***************************************************************************)
NoError == [variant |-> "", detail |-> <<>>]

Ok(v) == [kind |-> "Ok", value |-> <<v>>, error |-> NoError]

Err(variant, detail) ==
    [kind |-> "Err", value |-> <<>>, error |-> [variant |-> variant, detail |-> detail]]

\* what a suspended call has to show: nothing yet
Pending == [kind |-> "Pending", value |-> <<>>, error |-> NoError]

Panic(detail) ==
    [kind |-> "Panic", value |-> <<>>, error |-> [variant |-> "panic", detail |-> detail]]

(***************************************************************************)
(* Expression algebra (crate::logicalplan::Expr, as dataframe.rs uses it). *)
(***************************************************************************)
UInt64(n) == [type |-> "UInt64", value |-> n]

Column(i) == [tag |-> "Column", index |-> i]

Literal(v) == [tag |-> "Literal", value |-> v]

Wildcard == [tag |-> "Wildcard"]

AggregateFunction(name, args, return_type) ==
    [tag |-> "AggregateFunction", name |-> name, args |-> args,
     return_type |-> return_type]

aggregate_expr(name, expr) ==
    LET return_type == "Float64"
    IN  AggregateFunction(name, <<expr>>, return_type)

min(expr) == aggregate_expr("MIN", expr)

max(expr) == aggregate_expr("MAX", expr)

sum(expr) == aggregate_expr("SUM", expr)

(***************************************************************************)
(* Schema: an ordered sequence of fields [name, data_type].                *)
(***************************************************************************)
Field(name, data_type) == [name |-> name, data_type |-> data_type]

Schema_empty == <<>>

\* arrow's Schema::field(i) is &self.fields[i]: it panics when i is out of range
Schema_field_in_range(schema, i) == i >= 0 /\ i < Len(schema)

Schema_field(schema, i) == schema[i + 1]

\* Expr -> Result<Field> against an input schema
expr_to_field(e, input_schema) ==
    CASE e.tag = "Column" ->
            IF Schema_field_in_range(input_schema, e.index)
            THEN Ok(Schema_field(input_schema, e.index))
            ELSE Err("SchemaError", <<"invalid field reference">>)
      [] e.tag = "Literal" -> Ok(Field(ToString(e.value.value), e.value.type))
      [] e.tag = "AggregateFunction" -> Ok(Field(e.name, e.return_type))
      [] e.tag = "Wildcard" ->
            Err("SchemaError", <<"wildcard outside a projection list">>)

\* &[Expr] -> Result<Vec<Field>>: one field per expression, in order
exprlist_to_fields(expr, input_schema) ==
    LET fs == [i \in DOMAIN expr |-> expr_to_field(expr[i], input_schema)]
    IN  IF \E i \in DOMAIN expr : fs[i].kind # "Ok"
        THEN LET i == CHOOSE j \in DOMAIN expr :
                        /\ fs[j].kind # "Ok"
                        /\ \A l \in DOMAIN expr : fs[l].kind # "Ok" => j <= l
             IN  Err(fs[i].error.variant, fs[i].error.detail)
        ELSE Ok([i \in DOMAIN expr |-> fs[i].value[1]])

(***************************************************************************)
(* Logical plan (crate::logicalplan::LogicalPlan, as dataframe.rs builds   *)
(* it).                                                                    *)
(***************************************************************************)
RecordBatch(schema, num_rows) == [schema |-> schema, num_rows |-> num_rows]

EmptyRelation(schema) == [tag |-> "EmptyRelation", schema |-> schema]

MemoryScan(batches) == [tag |-> "MemoryScan", batches |-> batches]

FileScan(path, file_type, schema, projected_schema, projection) ==
    [tag |-> "FileScan", path |-> path, file_type |-> file_type,
     schema |-> schema, projected_schema |-> projected_schema,
     projection |-> projection]

Projection(expr, input, schema) ==
    [tag |-> "Projection", expr |-> expr, input |-> input, schema |-> schema]

Selection(expr, input) == [tag |-> "Selection", expr |-> expr, input |-> input]

Limit(expr, input, schema) ==
    [tag |-> "Limit", expr |-> expr, input |-> input, schema |-> schema]

Aggregate(input, group_expr, aggr_expr, schema) ==
    [tag |-> "Aggregate", input |-> input, group_expr |-> group_expr,
     aggr_expr |-> aggr_expr, schema |-> schema]

RECURSIVE LogicalPlan_schema(_)
LogicalPlan_schema(plan) ==
    CASE plan.tag = "EmptyRelation" -> plan.schema
      [] plan.tag = "MemoryScan" ->
            IF plan.batches = <<>> THEN Schema_empty ELSE plan.batches[1].schema
      [] plan.tag = "FileScan" -> plan.projected_schema
      [] plan.tag = "Projection" -> plan.schema
      [] plan.tag = "Selection" -> LogicalPlan_schema(plan.input)
      [] plan.tag = "Limit" -> plan.schema
      [] plan.tag = "Aggregate" -> plan.schema

Action_Collect(plan) == [tag |-> "Collect", plan |-> plan]

(***************************************************************************)
(* Backend-state descriptor and the dispatcher's constructors.             *)
(***************************************************************************)
Local(settings) == [tag |-> "Local", settings |-> settings]

Remote(host, port, settings) ==
    [tag |-> "Remote", host |-> host, port |-> port, settings |-> settings]

Spark(master, spark_settings) ==
    [tag |-> "Spark", master |-> master, spark_settings |-> spark_settings]

Context_spark(master, settings) == Spark(master, parse_settings(settings))

Context_local(settings) == Local(parse_settings(settings))

Context_remote(host, port, settings) ==
    Remote(host, port, parse_settings(settings))

(***************************************************************************)
(* External collaborators, at their boundary.                              *)
(***************************************************************************)
\* The parquet files a table provider can open, with their declared schema.
ParquetSchemas ==
    [path \in {"/data/t.parquet"} |->
        <<Field("a", "Utf8"), Field("b", "Int64"), Field("c", "Float64")>>]

\* ParquetTable::try_new(path): the provider, or the provider's failure
ParquetTable_try_new(path) ==
    IF path \in DOMAIN ParquetSchemas
    THEN Ok([schema |-> ParquetSchemas[path]])
    ELSE Err("DataFusionError", <<"cannot open parquet file">>)

\* client::execute_action(host, port, action).await: the call is made and
\* recorded; `net` is what the client has answered, Pending while it has not.
Context_execute_action(host, port, action, net) ==
    [result |-> net,
     net_calls |-> <<[host |-> host, port |-> port, action |-> action]>>,
     engine_calls |-> <<>>]

(***************************************************************************)
(* Plan builder (DataFrame).                                               *)
(***************************************************************************)
DataFrame_from(ctx, plan) == [ctx_state |-> ctx, plan |-> plan]

DataFrame_empty(ctx) == DataFrame_from(ctx, EmptyRelation(Schema_empty))

DataFrame_schema(self) == LogicalPlan_schema(self.plan)

RECURSIVE SortedIndices(_)
\* the indices of p in ascending order, duplicates kept
SortedIndices(p) ==
    IF p = <<>> THEN <<>>
    ELSE LET m == CHOOSE i \in DOMAIN p : \A j \in DOMAIN p : p[i] <= p[j]
             rest == [k \in 1..(Len(p) - 1) |-> IF k < m THEN p[k] ELSE p[k + 1]]
         IN  <<p[m]>> \o SortedIndices(rest)

\* a projected schema that keeps the file's field order whatever the order of p
projected_schema_file_order(schema, projection) ==
    IF projection = None THEN schema
    ELSE LET p == SortedIndices(projection[1])
         IN  [j \in DOMAIN p |-> Schema_field(schema, p[j])]

\* projection.map(|p| Schema::new(p.iter().map(|i| schema.field(*i).clone()).collect()))
\*     .or(Some(schema.clone())).unwrap(), for in-range indices
projected_schema_of(schema, projection) ==
    IF projection = None THEN schema
    ELSE LET p == projection[1]
         IN  [j \in DOMAIN p |-> Schema_field(schema, p[j])]

ProjectionInRange(schema, projection) ==
    projection = None
    \/ \A j \in DOMAIN projection[1] : Schema_field_in_range(schema, projection[1][j])

DataFrame_scan_csv(ctx, path, schema, projection) ==
    IF ~ProjectionInRange(schema, projection)
    THEN Panic(<<"index out of bounds">>)
    ELSE Ok(DataFrame_from(ctx,
                FileScan(path, "csv", schema,
                         projected_schema_of(schema, projection), projection)))

DataFrame_scan_parquet(ctx, path, projection) ==
    LET p == ParquetTable_try_new(path)
    IN  IF p.kind # "Ok" THEN Err(p.error.variant, p.error.detail)
        ELSE LET schema == p.value[1].schema
             IN  IF ~ProjectionInRange(schema, projection)
                 THEN Panic(<<"index out of bounds">>)
                 ELSE Ok(DataFrame_from(ctx,
                             FileScan(path, "parquet", schema,
                                      projected_schema_of(schema, projection),
                                      projection)))

RECURSIVE ExpandWildcards(_, _)
\* the for_each loop of project: each Wildcard becomes Column(0..n-1), in place
ExpandWildcards(expr, n) ==
    IF expr = <<>> THEN <<>>
    ELSE (IF Head(expr) = Wildcard
          THEN [i \in 1..n |-> Column(i - 1)]
          ELSE <<Head(expr)>>) \o ExpandWildcards(Tail(expr), n)

Contains(expr, e) == \E i \in DOMAIN expr : expr[i] = e

\* a project that expands the first Wildcard only and drops the others
DataFrame_project_first_wildcard_only(self, expr) ==
    LET input_schema == LogicalPlan_schema(self.plan)
        first == IF Contains(expr, Wildcard)
                 THEN CHOOSE i \in DOMAIN expr :
                        /\ expr[i] = Wildcard
                        /\ \A j \in DOMAIN expr : expr[j] = Wildcard => i <= j
                 ELSE 0
        kept == SelectSeq([i \in DOMAIN expr |-> [pos |-> i, e |-> expr[i]]],
                          LAMBDA x : x.e # Wildcard \/ x.pos = first)
        projected_expr == ExpandWildcards([i \in DOMAIN kept |-> kept[i].e],
                                          Len(input_schema))
        fields == exprlist_to_fields(projected_expr, input_schema)
    IN  IF fields.kind # "Ok" THEN Err(fields.error.variant, fields.error.detail)
        ELSE Ok(DataFrame_from(self.ctx_state,
                    Projection(projected_expr, self.plan, fields.value[1])))

DataFrame_project(self, expr) ==
    LET input_schema == LogicalPlan_schema(self.plan)
        projected_expr == IF Contains(expr, Wildcard)
                          THEN ExpandWildcards(expr, Len(input_schema))
                          ELSE expr
        fields == exprlist_to_fields(projected_expr, input_schema)
    IN  IF fields.kind # "Ok" THEN Err(fields.error.variant, fields.error.detail)
        ELSE Ok(DataFrame_from(self.ctx_state,
                    Projection(projected_expr, self.plan, fields.value[1])))

DataFrame_filter(self, expr) ==
    Ok(DataFrame_from(self.ctx_state, Selection(expr, self.plan)))

\* n as u64: usize is 64 bits wide on the target, the cast keeps the value
AsU64(n) == n

\* a limit that derives no schema of its own
DataFrame_limit_empty_schema(self, n) ==
    Ok(DataFrame_from(self.ctx_state,
           Limit(Literal(UInt64(AsU64(n))), self.plan, Schema_empty)))

DataFrame_limit(self, n) ==
    Ok(DataFrame_from(self.ctx_state,
           Limit(Literal(UInt64(AsU64(n))), self.plan,
                 LogicalPlan_schema(self.plan))))

\* an aggregate that derives the aggregate fields before the group fields
DataFrame_aggregate_aggr_first(self, group_expr, aggr_expr) ==
    LET all_fields == aggr_expr \o group_expr
        aggr_schema == exprlist_to_fields(all_fields, LogicalPlan_schema(self.plan))
    IN  IF aggr_schema.kind # "Ok"
        THEN Err(aggr_schema.error.variant, aggr_schema.error.detail)
        ELSE Ok(DataFrame_from(self.ctx_state,
                    Aggregate(self.plan, group_expr, aggr_expr,
                              aggr_schema.value[1])))

DataFrame_aggregate(self, group_expr, aggr_expr) ==
    LET all_fields == group_expr \o aggr_expr
        aggr_schema == exprlist_to_fields(all_fields, LogicalPlan_schema(self.plan))
    IN  IF aggr_schema.kind # "Ok"
        THEN Err(aggr_schema.error.variant, aggr_schema.error.detail)
        ELSE Ok(DataFrame_from(self.ctx_state,
                    Aggregate(self.plan, group_expr, aggr_expr,
                              aggr_schema.value[1])))

(***************************************************************************)
(* collect: the dispatch on the backend state.  `net` is what the network  *)
(* client has answered when it is called (Pending: the run is suspended at *)
(* the await); `engine` holds the outcomes the local engine gives at each  *)
(* of its steps when that step is reached.                                 *)
(***************************************************************************)
EngineCall(fn, arg) == [fn |-> fn, arg |-> arg]

\* what the local engine answers at each step it reaches: [translate, optimize,
\* physical, collect]; a step after a failed one is never reached
EngineRun(translate, optimize, physical, collect) ==
    [translate |-> translate, optimize |-> optimize, physical |-> physical,
     collect |-> collect]

CollectOutcome(result, net_calls, engine_calls) ==
    [result |-> result, net_calls |-> net_calls, engine_calls |-> engine_calls]

collect_spark(self, net) ==
    LET spark_settings == self.ctx_state.spark_settings
        action == Action_Collect(self.plan)
    IN  IF SPARK_HOST \notin DOMAIN spark_settings
        THEN CollectOutcome(Panic(<<"key not found", SPARK_HOST>>), <<>>, <<>>)
        ELSE IF SPARK_PORT \notin DOMAIN spark_settings
        THEN CollectOutcome(Panic(<<"key not found", SPARK_PORT>>), <<>>, <<>>)
        ELSE LET host == spark_settings[SPARK_HOST]
                 port == ParseUsize(spark_settings[SPARK_PORT])
             IN  IF ~port.ok
                 THEN CollectOutcome(Panic(<<"unwrap on Err", port.error>>), <<>>, <<>>)
                 ELSE Context_execute_action(host, port.value, action, net)

collect_remote(self, net) ==
    Context_execute_action(self.ctx_state.host, self.ctx_state.port,
                           Action_Collect(self.plan), net)

collect_local(self, engine) ==
    LET settings == self.ctx_state.settings
        c1 == <<EngineCall("translate_plan", self.plan)>>
        c2 == Append(c1, EngineCall("optimize", self.plan))
        x == Configs_new(settings)
        setting == Configs_csv_batch_size(x)
        batch_size == IF setting = None THEN [ok |-> FALSE, value |-> 0, error |-> "None"]
                      ELSE ParseUsize(setting[1])
        c3 == Append(c2, EngineCall("create_physical_plan", batch_size.value))
        c4 == Append(c3, EngineCall("collect", batch_size.value))
    IN  IF ~engine.translate
        THEN CollectOutcome(Err("BallistaError", <<"translate_plan">>), <<>>, c1)
        ELSE IF ~engine.optimize
        THEN CollectOutcome(Err("DataFusionError", <<"optimize">>), <<>>, c2)
        ELSE IF setting = None
        THEN CollectOutcome(Panic(<<"unwrap on None">>), <<>>, c2)
        ELSE IF ~batch_size.ok
        THEN CollectOutcome(Panic(<<"unwrap on Err", batch_size.error>>), <<>>, c2)
        ELSE IF ~engine.physical
        THEN CollectOutcome(Err("DataFusionError", <<"create_physical_plan">>), <<>>, c3)
        ELSE IF engine.collect.kind # "Ok"
        THEN CollectOutcome(Err("DataFusionError", engine.collect.error.detail), <<>>, c4)
        ELSE CollectOutcome(engine.collect, <<>>, c4)

\* a collect that calls the network client a second time when the first call fails
DataFrame_collect_retry(self, net, engine) ==
    LET once == CASE self.ctx_state.tag = "Spark" -> collect_spark(self, net)
                  [] self.ctx_state.tag = "Remote" -> collect_remote(self, net)
                  [] self.ctx_state.tag = "Local" -> collect_local(self, engine)
    IN  IF once.net_calls # <<>> /\ once.result.kind # "Ok"
        THEN CollectOutcome(once.result, once.net_calls \o once.net_calls, <<>>)
        ELSE once

DataFrame_collect(self, net, engine) ==
    CASE self.ctx_state.tag = "Spark" -> collect_spark(self, net)
      [] self.ctx_state.tag = "Remote" -> collect_remote(self, net)
      [] self.ctx_state.tag = "Local" -> collect_local(self, engine)

\* a write_csv that reports success on the local backend
DataFrame_write_csv_local_ok(self, path) ==
    IF self.ctx_state.tag = "Local" THEN Ok(<<>>)
    ELSE Err("NotImplemented",
             <<"write_csv() is not implemented for ", self.ctx_state, " yet">>)

DataFrame_write_csv(self, path) ==
    Err("NotImplemented",
        <<"write_csv() is not implemented for ", self.ctx_state, " yet">>)

DataFrame_write_parquet(self, path) ==
    Err("NotImplemented",
        <<"write_parquet() is not implemented for ", self.ctx_state, " yet">>)

(***************************************************************************)
(* Context: the dispatcher's factories.                                    *)
(***************************************************************************)
Context_create_dataframe(state, batches) ==
    Ok(DataFrame_from(state, MemoryScan(batches)))

\* schema.unwrap(): a read_csv without a schema panics
Context_read_csv(state, path, schema, projection, has_header) ==
    IF schema = None THEN Panic(<<"unwrap on None">>)
    ELSE DataFrame_scan_csv(state, path, schema[1], projection)

Context_read_parquet(state, path, projection) ==
    DataFrame_scan_parquet(state, path, projection)

(***************************************************************************)
(* State: the dispatcher's backend state, the builders the caller holds    *)
(* (in creation order), the futures the caller holds (calls of the async   *)
(* functions that have not returned yet) and the outcome of the last step. *)
(***************************************************************************)
MaxBuilders == 3

MaxFutures == 1

Outcome(op, self, args, result, net_calls, engine_calls) ==
    [op |-> op, self |-> self, args |-> args, result |-> result,
     net_calls |-> net_calls, engine_calls |-> engine_calls]

NoCall == Outcome("none", 0, <<>>, Ok(<<>>), <<>>, <<>>)

\* a call that returns a builder hands the caller a new one; the others stay
Keep(result) ==
    builders' = IF result.kind = "Ok" THEN Append(builders, result.value[1])
                ELSE builders

CanBuild == Len(builders) < MaxBuilders

\* a future: the async fn called (op), the builder it borrows (self, 0 for a
\* call on the dispatcher), its arguments, where its body stands (pc: "created"
\* before the first poll, "awaiting" at the client's await) and the client
\* calls it has made
Future(op, self, request, pc, net_calls) ==
    [op |-> op, self |-> self, request |-> request, pc |-> pc,
     net_calls |-> net_calls]

CanSpawn == Len(futures) < MaxFutures

RemoveAt(s, f) == [k \in 1..(Len(s) - 1) |-> IF k < f THEN s[k] ELSE s[k + 1]]

CreateDataframe(batches) ==
    /\ CanBuild
    /\ LET r == Context_create_dataframe(ctx_state, batches)
       IN  /\ Keep(r)
           /\ last' = Outcome("create_dataframe", 0, [batches |-> batches], r, <<>>, <<>>)
    /\ UNCHANGED <<ctx_state, futures>>

ReadCsv(path, schema, projection) ==
    /\ CanBuild
    /\ LET r == Context_read_csv(ctx_state, path, schema, projection, TRUE)
       IN  /\ Keep(r)
           /\ last' = Outcome("read_csv", 0,
                              [path |-> path, schema |-> schema,
                               projection |-> projection], r, <<>>, <<>>)
    /\ UNCHANGED <<ctx_state, futures>>

ReadParquet(path, projection) ==
    /\ CanBuild
    /\ LET r == Context_read_parquet(ctx_state, path, projection)
       IN  /\ Keep(r)
           /\ last' = Outcome("read_parquet", 0,
                              [path |-> path, projection |-> projection],
                              r, <<>>, <<>>)
    /\ UNCHANGED <<ctx_state, futures>>

Project(i, expr) ==
    /\ CanBuild
    /\ i \in DOMAIN builders
    /\ LET r == DataFrame_project(builders[i], expr)
       IN  /\ Keep(r)
           /\ last' = Outcome("project", i, [expr |-> expr], r, <<>>, <<>>)
    /\ UNCHANGED <<ctx_state, futures>>

\* a filter that rewrites the builder it is called on
Filter_in_place(i, expr) ==
    /\ CanBuild
    /\ i \in DOMAIN builders
    /\ LET r == DataFrame_filter(builders[i], expr)
       IN  /\ builders' = Append([builders EXCEPT ![i] = r.value[1]], r.value[1])
           /\ last' = Outcome("filter", i, [expr |-> expr], r, <<>>, <<>>)
    /\ UNCHANGED <<ctx_state, futures>>

Filter(i, expr) ==
    /\ CanBuild
    /\ i \in DOMAIN builders
    /\ LET r == DataFrame_filter(builders[i], expr)
       IN  /\ Keep(r)
           /\ last' = Outcome("filter", i, [expr |-> expr], r, <<>>, <<>>)
    /\ UNCHANGED <<ctx_state, futures>>

DoLimit(i, n) ==
    /\ CanBuild
    /\ i \in DOMAIN builders
    /\ LET r == DataFrame_limit(builders[i], n)
       IN  /\ Keep(r)
           /\ last' = Outcome("limit", i, [n |-> n], r, <<>>, <<>>)
    /\ UNCHANGED <<ctx_state, futures>>

DoAggregate(i, group_expr, aggr_expr) ==
    /\ CanBuild
    /\ i \in DOMAIN builders
    /\ LET r == DataFrame_aggregate(builders[i], group_expr, aggr_expr)
       IN  /\ Keep(r)
           /\ last' = Outcome("aggregate", i,
                              [group_expr |-> group_expr, aggr_expr |-> aggr_expr],
                              r, <<>>, <<>>)
    /\ UNCHANGED <<ctx_state, futures>>

\* DataFrame::empty(ctx) and DataFrame::from(ctx, &plan): the caller builds a
\* builder from a backend state and a plan of its own
Empty(ctx) ==
    /\ CanBuild
    /\ LET r == Ok(DataFrame_empty(ctx))
       IN  /\ Keep(r)
           /\ last' = Outcome("empty", 0, [ctx |-> ctx], r, <<>>, <<>>)
    /\ UNCHANGED <<ctx_state, futures>>

From(ctx, plan) ==
    /\ CanBuild
    /\ LET r == Ok(DataFrame_from(ctx, plan))
       IN  /\ Keep(r)
           /\ last' = Outcome("from", 0, [ctx |-> ctx, plan |-> plan], r, <<>>, <<>>)
    /\ UNCHANGED <<ctx_state, futures>>

\* builder.collect(): an async fn; the call hands back a future and runs none
\* of the body
CallCollect(i) ==
    /\ CanSpawn
    /\ i \in DOMAIN builders
    /\ futures' = Append(futures, Future("collect", i, None, "created", <<>>))
    /\ last' = Outcome("call_collect", i, <<>>, Pending, <<>>, <<>>)
    /\ UNCHANGED <<ctx_state, builders>>

\* context.execute_action(host, port, action), called on the dispatcher itself
CallExecuteAction(host, port, action) ==
    /\ CanSpawn
    /\ futures' = Append(futures,
                         Future("execute_action", 0,
                                Some([host |-> host, port |-> port, action |-> action]),
                                "created", <<>>))
    /\ last' = Outcome("call_execute_action", 0, <<>>, Pending, <<>>, <<>>)
    /\ UNCHANGED <<ctx_state, builders>>

\* the first poll of a future: the body runs up to the client's await, where it
\* is suspended with the call made, or to its end when it reaches no await
PollStart(f, engine) ==
    /\ f \in DOMAIN futures
    /\ futures[f].pc = "created"
    /\ LET fut == futures[f]
           c == IF fut.op = "collect"
                THEN DataFrame_collect(builders[fut.self], Pending, engine)
                ELSE Context_execute_action(fut.request[1].host, fut.request[1].port,
                                            fut.request[1].action, Pending)
       IN  IF c.result = Pending
           THEN /\ futures' = [futures EXCEPT ![f] =
                                  Future(fut.op, fut.self, fut.request, "awaiting",
                                         c.net_calls)]
                /\ last' = Outcome("poll", fut.self, [op |-> fut.op], Pending,
                                   c.net_calls, c.engine_calls)
           ELSE /\ futures' = RemoveAt(futures, f)
                /\ last' = Outcome(fut.op, fut.self,
                                   [net |-> Pending, engine |-> engine],
                                   c.result, c.net_calls, c.engine_calls)
    /\ UNCHANGED <<ctx_state, builders>>

\* the poll after the client has answered: the suspended call returns the answer
PollReady(f, net) ==
    /\ f \in DOMAIN futures
    /\ futures[f].pc = "awaiting"
    /\ LET fut == futures[f]
       IN  last' = Outcome(fut.op, fut.self,
                           [net |-> net, engine |-> EngineRun(TRUE, TRUE, TRUE, Ok(<<>>))],
                           net, fut.net_calls, <<>>)
    /\ futures' = RemoveAt(futures, f)
    /\ UNCHANGED <<ctx_state, builders>>

\* the caller drops a future: its body runs no further and returns nothing
DropFuture(f) ==
    /\ f \in DOMAIN futures
    /\ LET fut == futures[f]
       IN  last' = Outcome("drop", fut.self, [op |-> fut.op, pc |-> fut.pc],
                           Pending, fut.net_calls, <<>>)
    /\ futures' = RemoveAt(futures, f)
    /\ UNCHANGED <<ctx_state, builders>>

WriteCsv(i, path) ==
    /\ i \in DOMAIN builders
    /\ last' = Outcome("write_csv", i, [path |-> path],
                       DataFrame_write_csv(builders[i], path), <<>>, <<>>)
    /\ UNCHANGED <<ctx_state, builders, futures>>

WriteParquet(i, path) ==
    /\ i \in DOMAIN builders
    /\ last' = Outcome("write_parquet", i, [path |-> path],
                       DataFrame_write_parquet(builders[i], path), <<>>, <<>>)
    /\ UNCHANGED <<ctx_state, builders, futures>>

\* Configs::new(settings).get_setting(name) on the settings of a Local state
GetSetting(name) ==
    /\ ctx_state.tag = "Local"
    /\ last' = Outcome("get_setting", 0,
                       [settings |-> ctx_state.settings, name |-> name],
                       Ok(Configs_get_setting(Configs_new(ctx_state.settings), name)),
                       <<>>, <<>>)
    /\ UNCHANGED <<ctx_state, builders, futures>>

(***************************************************************************)
(* Inputs.                                                                 *)
(***************************************************************************)
EmptyMap == [k \in {} |-> <<>>]

MapsOver(keys, values) == UNION {[d -> values] : d \in SUBSET keys}

S_1024 == <<"1", "0", "2", "4">>

S_2048 == <<"2", "0", "4", "8">>

S_plus8 == <<"+", "8">>

S_0100 == <<"0", "1", "0", "0">>

S_abc == <<"a", "b", "c">>

S_minus1 == <<"-", "1">>

S_8space == <<"8", " ">>

S_huge == [i \in 1..20 |-> "9"]

S_huge_a == [i \in 1..21 |-> IF i <= 20 THEN "9" ELSE "a"]

S_max_a == <<"1", "8", "4", "4", "6", "7", "4", "4", "0", "7", "3", "7", "0", "9",
             "5", "5", "1", "6", "1", "5", "a">>

S_foo == <<"/", "f", "o", "o">>

S_host == <<"h", "o", "s", "t">>

S_50051 == <<"5", "0", "0", "5", "1">>

\* strings that parse as usize, and strings that do not
ParsingValues == {S_1024, S_2048, S_plus8, S_0100, S_50051}

NonParsingValues ==
    {<<>>, <<"+">>, S_abc, S_minus1, S_8space, S_huge, S_huge_a, S_max_a}

AllFields ==
    <<Field("a", "Utf8"), Field("b", "Int64"), Field("c", "Float64"),
      Field("d", "Boolean"), Field("e", "UInt32"), Field("f", "Utf8")>>

SchemaOfLen(k) == SubSeq(AllFields, 1, k)

RECURSIVE SeqsUpTo(_, _)
\* the sequences over set S of length at most n
SeqsUpTo(S, n) ==
    IF n = 0 THEN {<<>>}
    ELSE LET shorter == SeqsUpTo(S, n - 1)
         IN  shorter \cup {Append(q, x) : q \in shorter, x \in S}

BatchOf(n) == <<RecordBatch(SchemaOfLen(1), n)>>

BatchOutcomes == {<<>>, BatchOf(5)}

NetOutcomes ==
    {Ok(b) : b \in BatchOutcomes} \cup {Err("TransportError", <<"connection refused">>)}

EngineOutcomes ==
    {EngineRun(FALSE, TRUE, TRUE, Ok(<<>>)),
     EngineRun(TRUE, FALSE, TRUE, Ok(<<>>)),
     EngineRun(TRUE, TRUE, FALSE, Ok(<<>>)),
     EngineRun(TRUE, TRUE, TRUE, Err("ExecutionError", <<"execution failed">>))}
    \cup {EngineRun(TRUE, TRUE, TRUE, Ok(b)) : b \in BatchOutcomes}

\* the engine outcomes the first poll of a future can meet: a future that
\* runs no local engine meets none of interest
EngineFor(fut) ==
    IF fut.op = "collect" /\ builders[fut.self].ctx_state.tag = "Local"
    THEN EngineOutcomes
    ELSE {EngineRun(TRUE, TRUE, TRUE, Ok(<<>>))}

\* a backend state that is not the dispatcher's, and a plan of the caller's own
ForeignContext == Remote(S_host, 8, EmptyMap)

CallerPlan ==
    Limit(Literal(UInt64(3)), EmptyRelation(SchemaOfLen(2)), SchemaOfLen(1))

(***************************************************************************)
(* Spec: a dispatcher of each variant, the factories, the builders the     *)
(* caller makes itself, the construction operations and the writers, on up *)
(* to MaxBuilders builders.                                                *)
(***************************************************************************)
MainContexts ==
    {Context_local((CSV_BATCH_SIZE :> S_2048) @@ ("custom.setting" :> S_foo)),
     Context_remote(S_host, 50051, EmptyMap),
     Context_spark("local", (SPARK_HOST :> S_host) @@ (SPARK_PORT :> S_50051))}

MainExprLists == {<<Column(1), Wildcard, Wildcard>>, <<Column(7)>>}

MainAggregates ==
    {<<<<Column(0)>>, <<sum(Column(1))>>>>, <<<<Wildcard>>, <<>>>>}

Init ==
    /\ ctx_state \in MainContexts
    /\ builders = <<>>
    /\ futures = <<>>
    /\ last = NoCall

\* one first builder, then calls on the builders derived from it
Next ==
    \/ builders = <<>> /\ CreateDataframe(<<RecordBatch(SchemaOfLen(2), 5)>>)
    \/ \E schema \in {None, Some(SchemaOfLen(3))},
          projection \in {Some(<<2, 0>>), Some(<<3>>)} :
          builders = <<>> /\ ReadCsv("/data/t.csv", schema, projection)
    \/ \E path \in {"/data/t.parquet", "/data/missing.parquet"} :
          builders = <<>> /\ ReadParquet(path, None)
    \/ \E ctx \in {ctx_state, ForeignContext} : builders = <<>> /\ Empty(ctx)
    \/ builders = <<>> /\ From(ctx_state, CallerPlan)
    \/ \E i \in DOMAIN builders, expr \in MainExprLists : Project(i, expr)
    \/ \E i \in DOMAIN builders : Filter(i, Column(0))
    \/ \E i \in DOMAIN builders, n \in {0, 10} : DoLimit(i, n)
    \/ \E i \in DOMAIN builders, a \in MainAggregates : DoAggregate(i, a[1], a[2])
    \/ \E i \in DOMAIN builders : WriteCsv(i, "/out/t.csv")
    \/ \E i \in DOMAIN builders : WriteParquet(i, "/out/t.parquet")

Spec == Init /\ [][Next]_vars

(***************************************************************************)
(* SpecConfigs: the resolver alone, over every overrides map on three keys *)
(* and every key asked for.                                                *)
(***************************************************************************)
ConfigKeys == {CSV_BATCH_SIZE, "custom.setting", "unknown.key"}

ConfigValues == {S_1024, S_2048, S_foo}

InitConfigs ==
    /\ ctx_state \in {Context_local(m) : m \in MapsOver(ConfigKeys, ConfigValues)}
    /\ builders = <<>>
    /\ futures = <<>>
    /\ last = NoCall

NextConfigs == \E name \in ConfigKeys \cup {"other.key"} : GetSetting(name)

SpecConfigs == InitConfigs /\ [][NextConfigs]_vars

(***************************************************************************)
(* SpecScan: one file scan, over file schemas of up to MaxFields fields    *)
(* and every projection of up to MaxProjLen indices in 0..MaxFields.       *)
(***************************************************************************)
MaxFields == 3

MaxProjLen == 2

ScanProjections ==
    {None} \cup {Some(p) : p \in SeqsUpTo(0..MaxFields, MaxProjLen)}

InitScan ==
    /\ ctx_state \in MainContexts
    /\ builders = <<>>
    /\ futures = <<>>
    /\ last = NoCall

NextScan ==
    \/ \E schema \in {None} \cup {Some(SchemaOfLen(k)) : k \in 0..MaxFields},
          projection \in ScanProjections :
          last = NoCall /\ ReadCsv("/data/t.csv", schema, projection)
    \/ \E path \in {"/data/t.parquet", "/data/missing.parquet"},
          projection \in ScanProjections :
          last = NoCall /\ ReadParquet(path, projection)

SpecScan == InitScan /\ [][NextScan]_vars

(***************************************************************************)
(* SpecBuild: one project or aggregate on a scan of up to MaxFields        *)
(* fields, over every expression list of up to MaxExprs (project) or       *)
(* MaxAggExprs (aggregate, each list) entries.                             *)
(***************************************************************************)
MaxExprs == 3

MaxAggExprs == 2

ExprUniverse ==
    {Column(0), Column(2), Wildcard, Literal(UInt64(7)), sum(Column(1))}

AggUniverse == {Column(0), Column(2), Wildcard, sum(Column(1))}

InitBuild ==
    /\ ctx_state = Context_local(EmptyMap)
    /\ \E k \in 0..MaxFields :
          builders = <<Context_read_csv(ctx_state, "/data/t.csv",
                                        Some(SchemaOfLen(k)), None, TRUE).value[1]>>
    /\ futures = <<>>
    /\ last = NoCall

NextBuild ==
    \/ \E expr \in SeqsUpTo(ExprUniverse, MaxExprs) :
          last = NoCall /\ Project(1, expr)
    \/ \E group_expr \in SeqsUpTo(AggUniverse, MaxAggExprs),
          aggr_expr \in SeqsUpTo(AggUniverse, MaxAggExprs) :
          last = NoCall /\ DoAggregate(1, group_expr, aggr_expr)

SpecBuild == InitBuild /\ [][NextBuild]_vars

(***************************************************************************)
(* SpecCollect: dispatchers over every settings map of interest, a chain   *)
(* of up to MaxChain builders, up to MaxFutures futures in flight, each    *)
(* polled or dropped in any order with the other calls, and every outcome  *)
(* of the collaborator a poll reaches.                                     *)
(***************************************************************************)
MaxChain == 2

LocalSettings ==
    MapsOver({CSV_BATCH_SIZE}, ParsingValues \cup NonParsingValues)
    \cup {("custom.setting" :> S_foo)}

SparkSettings ==
    {m \in MapsOver({SPARK_HOST, SPARK_PORT},
                    {S_host} \cup ParsingValues \cup NonParsingValues) :
        SPARK_HOST \in DOMAIN m => m[SPARK_HOST] = S_host}

CollectContexts ==
    {Context_local(m) : m \in LocalSettings}
    \cup {Context_remote(S_host, 50051, EmptyMap)}
    \cup {Context_spark("local", m) : m \in SparkSettings}

InitCollect ==
    /\ ctx_state \in CollectContexts
    /\ builders = <<>>
    /\ futures = <<>>
    /\ last = NoCall

NextCollect ==
    \/ builders = <<>> /\ CreateDataframe(<<RecordBatch(SchemaOfLen(2), 5)>>)
    \/ builders = <<>> /\ Empty(ForeignContext)
    \/ \E i \in DOMAIN builders : Len(builders) < MaxChain /\ Filter(i, Column(0))
    \/ \E i \in DOMAIN builders : Len(builders) < MaxChain /\ DoLimit(i, 10)
    \/ \E i \in DOMAIN builders : CallCollect(i)
    \/ CallExecuteAction(S_host, 50051, Action_Collect(CallerPlan))
    \/ \E f \in DOMAIN futures :
          \E engine \in EngineFor(futures[f]) : PollStart(f, engine)
    \/ \E f \in DOMAIN futures, net \in NetOutcomes : PollReady(f, net)
    \/ \E f \in DOMAIN futures : DropFuture(f)

SpecCollect == InitCollect /\ [][NextCollect]_vars

(***************************************************************************)
(* Properties.                                                             *)
(***************************************************************************)
\* the builder a call was made on, and the builder a successful call returned
Self == builders[last.self]

Returned == last.result.value[1]

\* C1: get_setting(k) is overrides[k] when k is overridden, else the catalog
\* default when k is in the catalog ("ballista.csv.batchSize" -> "1024"), else
\* absent; it never fails, and an override beats the default for every key.
C1_GetSettingPrecedence ==
    last.op = "get_setting" =>
        LET overrides == last.args.settings
            k == last.args.name
        IN  /\ last.result.kind = "Ok"
            /\ k \in DOMAIN overrides => Returned = Some(overrides[k])
            /\ k \notin DOMAIN overrides /\ k = "ballista.csv.batchSize" =>
                   Returned = Some(<<"1", "0", "2", "4">>)
            /\ k \notin DOMAIN overrides /\ k # "ballista.csv.batchSize" =>
                   Returned = None

C1_Witness ==
    /\ last.op = "get_setting"
    /\ last.args.name = CSV_BATCH_SIZE
    /\ CSV_BATCH_SIZE \in DOMAIN last.args.settings
    /\ last.args.settings[CSV_BATCH_SIZE] = S_2048
    /\ Returned = Some(S_2048)

\* the Spark settings from which host and port cannot be taken
BadSparkSettings(m) ==
    \/ "spark.ballista.host" \notin DOMAIN m
    \/ "spark.ballista.port" \notin DOMAIN m
    \/ ~ParseUsize(m["spark.ballista.port"]).ok

\* C2: collect on a Spark state whose settings lack the host or the port key, or
\* whose port is no unsigned integer, returns a ConfigurationError as the call's
\* error result, before any execute_action call, and yields no batches.
C2_SparkConfigurationError ==
    (/\ last.op = "collect"
     /\ Self.ctx_state.tag = "Spark"
     /\ BadSparkSettings(Self.ctx_state.spark_settings)) =>
        /\ last.result.kind = "Err"
        /\ last.result.error.variant = "ConfigurationError"
        /\ last.net_calls = <<>>

\* C3: write_csv and write_parquet return NotImplemented for every builder, plan,
\* path and backend variant; they call neither the local engine nor the network
\* client and leave the builder's plan and backend state as they were.
C3_WritersNotImplemented ==
    [][last'.op \in {"write_csv", "write_parquet"} =>
          /\ last'.result.kind = "Err"
          /\ last'.result.error.variant = "NotImplemented"
          /\ last'.net_calls = <<>>
          /\ last'.engine_calls = <<>>
          /\ builders' = builders
          /\ ctx_state' = ctx_state]_vars

C3_Witness ==
    /\ last.op = "write_parquet"
    /\ Self.ctx_state.tag = "Spark"
    /\ Self.plan.tag = "Aggregate"
    /\ last.result.error.variant = "NotImplemented"

\* the number of entries an entry of a projection list becomes over k fields
Width(e, k) == IF e = Wildcard THEN k ELSE 1

RECURSIVE WidthBefore(_, _, _)
\* the number of stored entries that come from the entries before position j
WidthBefore(given, j, k) ==
    IF j <= 1 THEN 0
    ELSE WidthBefore(given, j - 1, k) + Width(given[j - 1], k)

\* C4: project stores the given list with every Wildcard replaced in place by
\* Column(0) .. Column(k-1), the other entries keeping their relative positions;
\* without a Wildcard the stored list is the given one.  The stored list holds no
\* Wildcard and its length, which is the output schema's, is
\* (non-wildcard entries) + k * (Wildcard entries).
C4_ProjectExpandsWildcards ==
    (last.op = "project" /\ last.result.kind = "Ok") =>
        LET given == last.args.expr
            k == Len(DataFrame_schema(Self))
            node == Returned.plan
            wild == Cardinality({j \in DOMAIN given : given[j] = Wildcard})
        IN  /\ node.tag = "Projection"
            /\ Len(node.expr) = (Len(given) - wild) + k * wild
            /\ Len(node.schema) = Len(node.expr)
            /\ \A j \in DOMAIN given :
                  LET at == WidthBefore(given, j, k)
                  IN  IF given[j] = Wildcard
                      THEN \A c \in 1..k :
                              /\ at + c \in DOMAIN node.expr
                              /\ node.expr[at + c] = Column(c - 1)
                      ELSE /\ at + 1 \in DOMAIN node.expr
                           /\ node.expr[at + 1] = given[j]
            /\ wild = 0 => node.expr = given
            /\ \A i \in DOMAIN node.expr : node.expr[i] # Wildcard

C4_Witness ==
    /\ last.op = "project"
    /\ last.result.kind = "Ok"
    /\ last.args.expr = <<Wildcard, Literal(UInt64(7)), Wildcard>>
    /\ Len(DataFrame_schema(Self)) = 2
    /\ Returned.plan.expr =
          <<Column(0), Column(1), Literal(UInt64(7)), Column(0), Column(1)>>

ConstructionOps == {"project", "filter", "limit", "aggregate"}

\* C5: a construction operation, on a builder or on one derived from it, leaves
\* every existing builder's plan tree and schema as they were, whether it
\* succeeds or fails; a failed one produces no new builder.
C5_BuildersNeverChange ==
    [][last'.op \in ConstructionOps =>
          /\ \A i \in DOMAIN builders :
                /\ i \in DOMAIN builders'
                /\ builders'[i].plan = builders[i].plan
                /\ DataFrame_schema(builders'[i]) = DataFrame_schema(builders[i])
                /\ builders'[i].ctx_state = builders[i].ctx_state
          /\ last'.result.kind # "Ok" => builders' = builders
          /\ last'.result.kind = "Ok" => Len(builders') = Len(builders) + 1]_vars

C5_Witness ==
    /\ last.op = "filter"
    /\ last.self = 2
    /\ last.result.kind = "Ok"
    /\ Len(builders) = 3
    /\ builders[1].plan.tag = "FileScan"
    /\ builders[2].plan.tag = "Projection"
    /\ builders[3].plan.input = builders[2].plan

\* the calls a collect made to step `fn` of the local engine
EngineCallsTo(fn) ==
    {j \in DOMAIN last.engine_calls : last.engine_calls[j].fn = fn}

\* C6: collect on a Local state passes to create_physical_plan the batch size
\* parsed from get_setting("ballista.csv.batchSize"): 1024 without an override,
\* the override's value with one.  An override that is no unsigned integer makes
\* collect return a ConfigurationError: the engine is not run with 1024 in its
\* place and no batches are returned.
C6_LocalBatchSize ==
    (last.op = "collect" /\ Self.ctx_state.tag = "Local") =>
        LET settings == Self.ctx_state.settings
            overridden == "ballista.csv.batchSize" \in DOMAIN settings
            parsed == ParseUsize(settings["ballista.csv.batchSize"])
        IN  /\ ~overridden =>
                  \A j \in EngineCallsTo("create_physical_plan") :
                      last.engine_calls[j].arg = 1024
            /\ overridden /\ parsed.ok =>
                  \A j \in EngineCallsTo("create_physical_plan") :
                      last.engine_calls[j].arg = parsed.value
            /\ (overridden /\ ~parsed.ok
                  /\ last.args.engine.translate /\ last.args.engine.optimize) =>
                  /\ last.result.kind = "Err"
                  /\ last.result.error.variant = "ConfigurationError"
                  /\ EngineCallsTo("create_physical_plan") = {}
                  /\ EngineCallsTo("collect") = {}

FactoryOps == {"create_dataframe", "read_csv", "read_parquet"}

\* a builder a factory returns carries the dispatcher's backend state, and a
\* construction operation hands it on to the builder it returns
CarriesDispatcherState ==
    /\ (last.op \in FactoryOps /\ last.result.kind = "Ok") =>
           Returned.ctx_state = ctx_state
    /\ (last.op \in ConstructionOps /\ last.result.kind = "Ok") =>
           Returned.ctx_state = Self.ctx_state

\* C7, as claimed: every collect dispatches exactly one execution on the
\* backend the dispatcher was built with: Local no network call and one engine
\* run, Remote one execute_action to the bound host and port, Spark one
\* execute_action to the host and port of its settings; the request carries the
\* builder's plan and the result is what the collaborator returned.
C7_ExactlyOneDispatch ==
    /\ CarriesDispatcherState
    /\ last.op = "collect" =>
          /\ Self.ctx_state.tag = "Local" =>
                /\ last.net_calls = <<>>
                /\ Cardinality(EngineCallsTo("translate_plan")) = 1
          /\ Self.ctx_state.tag \in {"Remote", "Spark"} =>
                /\ Len(last.net_calls) = 1
                /\ last.engine_calls = <<>>
                /\ last.net_calls[1].action = Action_Collect(Self.plan)
                /\ last.result = last.args.net

\* the Spark settings from which collect takes a host and a port
GoodSparkSettings(m) ==
    /\ "spark.ballista.host" \in DOMAIN m
    /\ "spark.ballista.port" \in DOMAIN m
    /\ ParseUsize(m["spark.ballista.port"]).ok

\* the one client call a collect on builder `self` makes on a Remote state, or
\* on a Spark state whose settings hold a host and a port that parses
DispatchOf(self) ==
    LET st == self.ctx_state
    IN  [host |-> IF st.tag = "Remote" THEN st.host
                  ELSE st.spark_settings["spark.ballista.host"],
         port |-> IF st.tag = "Remote" THEN st.port
                  ELSE ParseUsize(st.spark_settings["spark.ballista.port"]).value,
         action |-> Action_Collect(self.plan)]

\* C7, amended: a builder got from a factory and any chain of construction
\* operations carries the dispatcher's backend state, and a collect() call
\* dispatches at most one execution, on the backend of its builder's state.
\* A call that has run to its end: Local makes no network call, hands the plan
\* to the engine's translate_plan once and runs each later engine step at most
\* once; it panics exactly when translation and optimisation succeed and the
\* batch size does not parse, and otherwise returns what the last engine step
\* reached returned.  Remote makes exactly one execute_action call to the
\* bound host and port.  Spark makes exactly one execute_action call to the
\* host and the parsed port of its settings when they hold both keys and the
\* port parses, otherwise no call and a panic.  The request carries the
\* builder's own plan, a failed call is not retried, and the result of a network
\* call is what the client returned.  A call that has not run to its end: it
\* has made no call at all before its first poll, and that one call and no
\* other while it waits for the client; a call the caller drops makes no
\* further call and returns nothing, so a drop leaves no call or one call
\* without a result.
C7_AtMostOneDispatch ==
    /\ CarriesDispatcherState
    /\ last.op = "collect" =>
          LET st == Self.ctx_state
          IN  /\ st.tag = "Local" =>
                    LET e == last.args.engine
                        size == ParseUsize(Configs_csv_batch_size(
                                               Configs_new(st.settings))[1])
                    IN  /\ last.net_calls = <<>>
                        /\ Cardinality(EngineCallsTo("translate_plan")) = 1
                        /\ last.engine_calls[1] = EngineCall("translate_plan", Self.plan)
                        /\ \A fn \in {"optimize", "create_physical_plan", "collect"} :
                              Cardinality(EngineCallsTo(fn)) <= 1
                        /\ last.result.kind = "Panic" <=>
                              (e.translate /\ e.optimize /\ ~size.ok)
                        /\ EngineCallsTo("collect") # {} <=>
                              (e.translate /\ e.optimize /\ size.ok /\ e.physical)
                        /\ EngineCallsTo("collect") # {} =>
                              /\ last.result.kind = e.collect.kind
                              /\ last.result.value = e.collect.value
                        /\ EngineCallsTo("collect") = {} => last.result.kind # "Ok"
              /\ st.tag = "Remote" => last.net_calls = <<DispatchOf(Self)>>
              /\ st.tag = "Spark" =>
                    IF GoodSparkSettings(st.spark_settings)
                    THEN last.net_calls = <<DispatchOf(Self)>>
                    ELSE /\ last.net_calls = <<>>
                         /\ last.result.kind = "Panic"
              /\ st.tag \in {"Remote", "Spark"} => last.engine_calls = <<>>
              /\ last.net_calls # <<>> => last.result = last.args.net
              /\ last.result.kind # "Pending"
    /\ \A f \in DOMAIN futures :
          futures[f].op = "collect" =>
              /\ futures[f].pc = "created" => futures[f].net_calls = <<>>
              /\ futures[f].pc = "awaiting" =>
                    /\ builders[futures[f].self].ctx_state.tag \in {"Remote", "Spark"}
                    /\ futures[f].net_calls = <<DispatchOf(builders[futures[f].self])>>
    /\ (last.op = "poll" /\ last.args.op = "collect") =>
          /\ last.net_calls = <<DispatchOf(Self)>>
          /\ last.engine_calls = <<>>
    /\ (last.op = "drop" /\ last.args.op = "collect") =>
          /\ last.result = Pending
          /\ last.engine_calls = <<>>
          /\ last.net_calls = IF last.args.pc = "created" THEN <<>>
                              ELSE <<DispatchOf(Self)>>

\* a Spark collect, suspended at the client's await while the caller derived a
\* builder from the one it runs on, has returned the client's failure
C7_Witness ==
    /\ last.op = "collect"
    /\ Self.ctx_state = ctx_state
    /\ ctx_state.tag = "Spark"
    /\ GoodSparkSettings(ctx_state.spark_settings)
    /\ ctx_state.spark_settings[SPARK_PORT] = S_plus8
    /\ last.self = 1
    /\ Len(builders) = 2
    /\ builders[2].plan.tag = "Selection"
    /\ builders[2].plan.input = Self.plan
    /\ Len(last.net_calls) = 1
    /\ last.net_calls[1].port = 8
    /\ last.result.kind = "Err"

ScanOps == {"read_csv", "read_parquet"}

\* the file schema a scan resolved: its argument (csv) or the provider's (parquet)
FileSchemaOf(call) ==
    IF call.op = "read_csv" THEN call.args.schema[1]
    ELSE ParquetSchemas[call.args.path]

\* C8, as claimed: a file scan with projection p over file schema S yields a
\* FileScan whose schema is S and whose projected_schema holds the fields of S
\* that p selects, in the file's field order, for every p; S without a projection.
C8_ProjectedSchemaInFileOrder ==
    (last.op \in ScanOps /\ last.result.kind = "Ok") =>
        LET S == FileSchemaOf(last)
            node == Returned.plan
            projection == last.args.projection
        IN  /\ node.tag = "FileScan"
            /\ node.schema = S
            /\ projection = None => node.projected_schema = S
            /\ projection # None =>
                  LET p == SortedIndices(projection[1])
                  IN  node.projected_schema = [j \in DOMAIN p |-> S[p[j] + 1]]

\* C8, amended: a file scan with projection p, every index of p below len(S),
\* yields a FileScan whose schema is S and whose projected_schema is the fields
\* S[p[0]], S[p[1]], ... in the order p lists them (the file's field order only
\* when p is ascending), a repeated index giving a repeated field; S without a
\* projection.  The node keeps p.  A scan with an index >= len(S) panics and
\* yields no builder.
C8_ProjectedSchemaInProjectionOrder ==
    last.op \in ScanOps =>
        LET projection == last.args.projection
        IN  /\ last.result.kind = "Ok" =>
                  LET S == FileSchemaOf(last)
                      node == Returned.plan
                  IN  /\ node.tag = "FileScan"
                      /\ node.schema = S
                      /\ node.projection = projection
                      /\ projection = None => node.projected_schema = S
                      /\ projection # None =>
                            /\ Len(node.projected_schema) = Len(projection[1])
                            /\ \A j \in DOMAIN projection[1] :
                                  /\ projection[1][j] < Len(S)
                                  /\ node.projected_schema[j] = S[projection[1][j] + 1]
                      /\ builders = <<Returned>>
            /\ (/\ last.op = "read_csv" => last.args.schema # None
                /\ last.op = "read_parquet" => last.args.path \in DOMAIN ParquetSchemas
                /\ projection # None
                /\ \E j \in DOMAIN projection[1] :
                      projection[1][j] >= Len(FileSchemaOf(last))) =>
                  /\ last.result.kind = "Panic"
                  /\ builders = <<>>

C8_Witness ==
    /\ last.op = "read_csv"
    /\ last.result.kind = "Ok"
    /\ last.args.projection = Some(<<2, 0>>)
    /\ Returned.plan.schema = SchemaOfLen(3)
    /\ Returned.plan.projected_schema = <<Field("c", "Float64"), Field("a", "Utf8")>>

\* C9: aggregate keeps group_expr and aggr_expr as given; its schema is the
\* fields derived from group_expr, in order, then those derived from aggr_expr,
\* in order, both against the input builder's schema; its length is
\* len(group_expr) + len(aggr_expr).
C9_AggregateSchemaGroupThenAggr ==
    (last.op = "aggregate" /\ last.result.kind = "Ok") =>
        LET node == Returned.plan
            input == DataFrame_schema(Self)
            g == last.args.group_expr
            a == last.args.aggr_expr
        IN  /\ node.tag = "Aggregate"
            /\ node.input = Self.plan
            /\ node.group_expr = g
            /\ node.aggr_expr = a
            /\ Len(node.schema) = Len(g) + Len(a)
            /\ \A j \in DOMAIN g :
                  node.schema[j] = expr_to_field(g[j], input).value[1]
            /\ \A j \in DOMAIN a :
                  node.schema[Len(g) + j] = expr_to_field(a[j], input).value[1]

C9_Witness ==
    /\ last.op = "aggregate"
    /\ last.result.kind = "Ok"
    /\ last.args.group_expr = <<Column(2), Column(0)>>
    /\ last.args.aggr_expr = <<sum(Column(1)), Column(2)>>
    /\ Returned.plan.schema =
          <<Field("c", "Float64"), Field("a", "Utf8"),
            Field("SUM", "Float64"), Field("c", "Float64")>>

\* C10: limit(n) always succeeds and yields a Limit node over the builder's plan
\* whose schema is the input builder's schema and whose expression is the
\* unsigned 64-bit literal n; the schema accessor reports the same schema after
\* the limit as before it, after any chain of operations.
C10_LimitKeepsSchema ==
    last.op = "limit" =>
        /\ last.result.kind = "Ok"
        /\ Returned.plan.tag = "Limit"
        /\ Returned.plan.input = Self.plan
        /\ Returned.plan.schema = DataFrame_schema(Self)
        /\ Returned.plan.expr = [tag |-> "Literal",
                                 value |-> [type |-> "UInt64", value |-> last.args.n]]
        /\ DataFrame_schema(Returned) = DataFrame_schema(Self)
        /\ Returned.ctx_state = Self.ctx_state
        /\ builders[Len(builders)] = Returned

C10_Witness ==
    /\ last.op = "limit"
    /\ last.args.n = 10
    /\ last.self = 2
    /\ Self.plan.tag = "Aggregate"
    /\ DataFrame_schema(Returned) = <<Field("c", "Float64"), Field("SUM", "Float64")>>

====
